---- MODULE Spec2Model ----
(***************************************************************************)
(* Kreo Assist caregiver application: the home screen (index.tsx), the     *)
(* alert screen (alert.tsx) and the backend they poll.  JSON values are    *)
(* records tagged by the field t; a missing field is a field that is not   *)
(* in the record's DOMAIN.                                                 *)
(***************************************************************************)
EXTENDS Integers, Sequences, FiniteSets, TLC

VARIABLES
    \* backend (remote service): alerts raised so far, alerts acknowledged
    nAlerts, bAcked,
    \* HomeScreen
    homeMounted, timers, status, connection, latestAlert, loading, refreshing,
    homeReqs, demoReqs, unhandled,
    \* AlertScreen, router, RNAlert dialogs
    route, alert, aLoading, acknowledging, aFetch, ackReqs, dialogs,
    \* EventLogScreen
    events, eLoading, eRefreshing, eReqs,
    \* formatDateTime of the event log: time since the event (ms), its text
    elapsed, formatted,
    \* console.error sink
    console,
    \* history: outcome of the alert screen's last acknowledge; the home
    \* snapshot taken when a refresh starts alone; the bodies of the last
    \* successful response per resource; the resources last written by a
    \* refresh that a later-issued refresh had already overtaken
    ackOutcome, before, applied, overtaken

backendVars == <<nAlerts, bAcked>>
homeVars == <<homeMounted, timers, status, connection, latestAlert, loading,
              refreshing, homeReqs, demoReqs, unhandled>>
alertVars == <<route, alert, aLoading, acknowledging, aFetch, ackReqs, dialogs>>
histVars == <<ackOutcome, before, applied, overtaken>>
eventVars == <<events, eLoading, eRefreshing, eReqs>>
fmtVars == <<elapsed, formatted>>
extVars == <<eventVars, fmtVars>>
vars == <<backendVars, homeVars, alertVars, console, histVars, extVars>>

----------------------------------------------------------------------------
\* Bounds
MaxAlerts == 2
MaxReqs == 2
MaxDemo == 1
MaxAcks == 2
MaxLogs == 2
MaxEvReqs == 2
\* longest time since an event that is formatted, in minutes (10 days)
MaxElapsedMin == 14400

----------------------------------------------------------------------------
\* JSON values
Null == [t |-> "null"]
ErrBody == [t |-> "error", detail |-> "Not Found"]

Has(o, f) == f \in DOMAIN o
Truthy(o) == o # Null

\* wire strings of current_status: the three classifications and one the
\* client does not know
StatusStrings == {"SAFE", "WARNING", "EMERGENCY", "OFFLINE"}
SimKinds == {"emergency", "warning", "safe"}

\* STATUS_COLORS
STATUS_COLORS ==
    [SAFE |-> "#34C759", WARNING |-> "#FFCC00", EMERGENCY |-> "#FF3B30"]

----------------------------------------------------------------------------
\* Backend: GET /status, /connection, /alerts/latest, POST /alerts/acknowledge
AlertType(i) == IF i % 2 = 1 THEN "emergency" ELSE "warning"

AlertRec(i) ==
    [t |-> "alert", id |-> i, type |-> AlertType(i), acknowledged |-> i \in bAcked]

\* the status and the heartbeat are whatever the device last reported
GetStatus == {[t |-> "status", current_status |-> s] : s \in StatusStrings}

GetConnection == {[t |-> "connection", is_connected |-> c] : c \in BOOLEAN}

Unacked == (1..nAlerts) \ bAcked

\* the latest alert that is still active, or absent
GetLatestAlert ==
    IF Unacked = {} THEN Null
    ELSE AlertRec(CHOOSE i \in Unacked : \A j \in Unacked : j <= i)

PostAcknowledge(id) == bAcked \cup ({id} \cap (1..nAlerts))

\* the assistive device raises a new alert
DeviceAlert ==
    /\ nAlerts < MaxAlerts
    /\ nAlerts' = nAlerts + 1
    /\ UNCHANGED <<bAcked, homeVars, alertVars, console, histVars>>
    /\ UNCHANGED extVars

----------------------------------------------------------------------------
\* getStatusColor falling back to the SAFE colour
getStatusColor_SafeFallback(statusText) ==
    IF statusText \in DOMAIN STATUS_COLORS THEN STATUS_COLORS[statusText]
    ELSE STATUS_COLORS["SAFE"]

\* HomeScreen rendering
getStatusColor(statusText) ==
    IF statusText \in DOMAIN STATUS_COLORS THEN STATUS_COLORS[statusText]
    ELSE "#999999"

\* status?.current_status || 'SAFE'
currentStatus(st) ==
    IF Has(st, "current_status") /\ st.current_status # "" THEN st.current_status
    ELSE "SAFE"

StatusIcon(cur) ==
    IF cur = "SAFE" THEN "checkmark-circle"
    ELSE IF cur = "WARNING" THEN "warning"
    ELSE "alert-circle"

StatusCard(st) ==
    [text |-> currentStatus(st),
     color |-> getStatusColor(currentStatus(st)),
     icon |-> StatusIcon(currentStatus(st))]

IsConnected(c) == Has(c, "is_connected") /\ c.is_connected

ConnectionCard(c) == IF IsConnected(c) THEN "Connected" ELSE "Disconnected"

\* {latestAlert && ( ... latestAlert.type.toUpperCase() ... )}
AlertPreview(a) ==
    IF ~Truthy(a) THEN "hidden"
    ELSE IF ~Has(a, "type") THEN "TypeError"
    ELSE "Active Alert"

HomeView ==
    IF ~homeMounted THEN [kind |-> "unmounted"]
    ELSE IF loading THEN [kind |-> "loading"]
    ELSE IF AlertPreview(latestAlert) = "TypeError" THEN [kind |-> "crashed"]
    ELSE [kind |-> "home",
          connection |-> ConnectionCard(connection),
          status |-> StatusCard(status),
          preview |-> AlertPreview(latestAlert)]

\* the home screen is on top and no modal dialog covers it
HomeInteractive == HomeView.kind = "home" /\ route = "home" /\ dialogs = <<>>

----------------------------------------------------------------------------
\* HomeScreen state and fetchData
Snapshot == [status |-> status, connection |-> connection, alert |-> latestAlert]
NoSnap == [t |-> "none"]
Blank == [status |-> Null, connection |-> Null, alert |-> Null]

RemoveAt(s, i) == SubSeq(s, 1, i - 1) \o SubSeq(s, i + 1, Len(s))

\* order of the three reads in fetchData
Rank(pc) == CASE pc = "status" -> 1 [] pc = "connection" -> 2 [] OTHER -> 3
NextPc(pc) == IF pc = "status" THEN "connection" ELSE "alert"
HeldKey(pc) == IF pc = "alert" THEN "alert" ELSE pc

\* a body the read of resource pc can parse: the entity, or the JSON error
\* body of a non-2xx response
Bodies(pc) ==
    CASE pc = "status" -> GetStatus \cup {ErrBody}
      [] pc = "connection" -> GetConnection \cup {ErrBody}
      [] OTHER -> {GetLatestAlert, ErrBody}

AllBodies == GetStatus \cup GetConnection \cup {AlertRec(i) : i \in 1..MaxAlerts}
             \cup {Null, ErrBody}

\* fetchData() is called: the first read is issued
StartFetch ==
    /\ homeReqs' = Append(homeReqs, "status")
    /\ before' = IF homeReqs = <<>> THEN Snapshot ELSE NoSnap

\* useEffect: first fetchData and setInterval
HomeMount ==
    /\ ~homeMounted
    /\ homeMounted' = TRUE
    /\ timers' = timers + 1
    /\ status' = Null /\ connection' = Null /\ latestAlert' = Null
    /\ loading' = TRUE /\ refreshing' = FALSE
    /\ homeReqs' = <<"status">>
    /\ before' = Blank /\ applied' = Blank /\ overtaken' = {}
    /\ UNCHANGED <<backendVars, demoReqs, unhandled, alertVars, console, ackOutcome>>
    /\ UNCHANGED extVars

\* HomeUnmount with the cleanup missing: the interval keeps running
HomeUnmount_Leak ==
    /\ homeMounted /\ route = "home"
    /\ homeMounted' = FALSE
    /\ status' = Null /\ connection' = Null /\ latestAlert' = Null
    /\ loading' = TRUE /\ refreshing' = FALSE
    /\ homeReqs' = <<>> /\ demoReqs' = {}
    /\ before' = NoSnap /\ applied' = Blank /\ overtaken' = {}
    /\ UNCHANGED <<backendVars, timers, unhandled, alertVars, console, ackOutcome>>
    /\ UNCHANGED extVars

\* useEffect cleanup: clearInterval.  Updates of an unmounted component are
\* discarded, so the fetches still in flight can no longer write the state.
HomeUnmount ==
    /\ homeMounted /\ route = "home"
    /\ homeMounted' = FALSE
    /\ timers' = timers - 1
    /\ status' = Null /\ connection' = Null /\ latestAlert' = Null
    /\ loading' = TRUE /\ refreshing' = FALSE
    /\ homeReqs' = <<>> /\ demoReqs' = {}
    /\ before' = NoSnap /\ applied' = Blank /\ overtaken' = {}
    /\ UNCHANGED <<backendVars, unhandled, alertVars, console, ackOutcome>>
    /\ UNCHANGED extVars

\* a timer callback that also calls setLoading(false)
TimerTick_ClearsLoading ==
    /\ timers > 0
    /\ Len(homeReqs) + Cardinality(demoReqs) < MaxReqs
    /\ loading' = FALSE
    /\ StartFetch
    /\ UNCHANGED <<backendVars, homeMounted, timers, status, connection, latestAlert,
                   refreshing, demoReqs, unhandled, alertVars, console,
                   ackOutcome, applied, overtaken>>
    /\ UNCHANGED extVars

\* setInterval(fetchData, 30000) fires
TimerTick ==
    /\ timers > 0
    /\ Len(homeReqs) + Cardinality(demoReqs) < MaxReqs
    /\ StartFetch
    /\ UNCHANGED <<backendVars, homeMounted, timers, status, connection, latestAlert,
                   loading, refreshing, demoReqs, unhandled, alertVars, console,
                   ackOutcome, applied, overtaken>>
    /\ UNCHANGED extVars

\* onRefresh that also calls setLoading(true)
onRefresh_SetsLoading ==
    /\ HomeInteractive
    /\ Len(homeReqs) + Cardinality(demoReqs) < MaxReqs
    /\ refreshing' = TRUE /\ loading' = TRUE
    /\ StartFetch
    /\ UNCHANGED <<backendVars, homeMounted, timers, status, connection, latestAlert,
                   demoReqs, unhandled, alertVars, console,
                   ackOutcome, applied, overtaken>>
    /\ UNCHANGED extVars

\* pull-to-refresh or the Refresh button
onRefresh ==
    /\ HomeInteractive
    /\ Len(homeReqs) + Cardinality(demoReqs) < MaxReqs
    /\ refreshing' = TRUE
    /\ StartFetch
    /\ UNCHANGED <<backendVars, homeMounted, timers, status, connection, latestAlert,
                   loading, demoReqs, unhandled, alertVars, console,
                   ackOutcome, applied, overtaken>>
    /\ UNCHANGED extVars

\* fetchDataOk that discards the response of a request which a later-issued
\* request has already overtaken on that resource
fetchDataOk_DropStale(i, body) ==
    /\ i \in 1..Len(homeReqs)
    /\ body \in Bodies(homeReqs[i])
    /\ LET stale == \E j \in (i + 1)..Len(homeReqs) :
                        Rank(homeReqs[j]) > Rank(homeReqs[i])
       IN  /\ status' = IF homeReqs[i] = "status" /\ ~stale THEN body ELSE status
           /\ connection' = IF homeReqs[i] = "connection" /\ ~stale THEN body
                            ELSE connection
           /\ latestAlert' = IF homeReqs[i] = "alert" THEN body ELSE latestAlert
           /\ overtaken' = IF stale THEN overtaken \cup {homeReqs[i]}
                           ELSE overtaken \ {homeReqs[i]}
    /\ IF homeReqs[i] = "alert"
       THEN /\ homeReqs' = RemoveAt(homeReqs, i)
            /\ loading' = FALSE /\ refreshing' = FALSE
            /\ before' = NoSnap
       ELSE /\ homeReqs' = [homeReqs EXCEPT ![i] = NextPc(@)]
            /\ UNCHANGED <<loading, refreshing, before>>
    /\ applied' = [applied EXCEPT ![HeldKey(homeReqs[i])] = body]
    /\ UNCHANGED <<backendVars, homeMounted, timers, demoReqs, unhandled,
                   alertVars, console, ackOutcome>>
    /\ UNCHANGED extVars

\* a read of request i resolves and its body parses: the setter replaces the
\* held value; after the last read the finally block runs
fetchDataOk(i, body) ==
    /\ i \in 1..Len(homeReqs)
    /\ body \in Bodies(homeReqs[i])
    /\ status' = IF homeReqs[i] = "status" THEN body ELSE status
    /\ connection' = IF homeReqs[i] = "connection" THEN body ELSE connection
    /\ latestAlert' = IF homeReqs[i] = "alert" THEN body ELSE latestAlert
    /\ IF homeReqs[i] = "alert"
       THEN /\ homeReqs' = RemoveAt(homeReqs, i)
            /\ loading' = FALSE /\ refreshing' = FALSE
            /\ before' = NoSnap
       ELSE /\ homeReqs' = [homeReqs EXCEPT ![i] = NextPc(@)]
            /\ UNCHANGED <<loading, refreshing, before>>
    /\ applied' = [applied EXCEPT ![HeldKey(homeReqs[i])] = body]
    /\ overtaken' =
         IF \E j \in (i + 1)..Len(homeReqs) : Rank(homeReqs[j]) > Rank(homeReqs[i])
         THEN overtaken \cup {homeReqs[i]}
         ELSE overtaken \ {homeReqs[i]}
    /\ UNCHANGED <<backendVars, homeMounted, timers, demoReqs, unhandled,
                   alertVars, console, ackOutcome>>
    /\ UNCHANGED extVars

\* fetchDataFail whose catch blanks the resources it did not get to
fetchDataFail_Blanking(i) ==
    /\ i \in 1..Len(homeReqs)
    /\ Len(console) < MaxLogs
    /\ console' = Append(console, "Error fetching data:")
    /\ homeReqs' = RemoveAt(homeReqs, i)
    /\ loading' = FALSE /\ refreshing' = FALSE
    /\ before' = NoSnap
    /\ connection' = IF Rank(homeReqs[i]) < 2 THEN Null ELSE connection
    /\ latestAlert' = IF Rank(homeReqs[i]) < 3 THEN Null ELSE latestAlert
    /\ UNCHANGED <<backendVars, homeMounted, timers, status,
                   demoReqs, unhandled, alertVars, ackOutcome, applied, overtaken>>
    /\ UNCHANGED extVars

\* fetchDataFail whose catch clears the resource whose read failed
fetchDataFail_ClearFailed(i) ==
    /\ i \in 1..Len(homeReqs)
    /\ Len(console) < MaxLogs
    /\ console' = Append(console, "Error fetching data:")
    /\ homeReqs' = RemoveAt(homeReqs, i)
    /\ loading' = FALSE /\ refreshing' = FALSE
    /\ before' = NoSnap
    /\ status' = IF homeReqs[i] = "status" THEN Null ELSE status
    /\ connection' = IF homeReqs[i] = "connection" THEN Null ELSE connection
    /\ latestAlert' = IF homeReqs[i] = "alert" THEN Null ELSE latestAlert
    /\ UNCHANGED <<backendVars, homeMounted, timers,
                   demoReqs, unhandled, alertVars, ackOutcome, applied, overtaken>>
    /\ UNCHANGED extVars

\* fetchDataFail without the finally block
fetchDataFail_NoFinally(i) ==
    /\ i \in 1..Len(homeReqs)
    /\ Len(console) < MaxLogs
    /\ console' = Append(console, "Error fetching data:")
    /\ homeReqs' = RemoveAt(homeReqs, i)
    /\ before' = NoSnap
    /\ UNCHANGED <<backendVars, homeMounted, timers, status, connection, latestAlert,
                   loading, refreshing, demoReqs, unhandled, alertVars, ackOutcome,
                   applied, overtaken>>
    /\ UNCHANGED extVars

\* a read of request i rejects, or its body does not parse: catch logs,
\* finally clears the flags, the remaining reads are not issued
fetchDataFail(i) ==
    /\ i \in 1..Len(homeReqs)
    /\ Len(console) < MaxLogs
    /\ console' = Append(console, "Error fetching data:")
    /\ homeReqs' = RemoveAt(homeReqs, i)
    /\ loading' = FALSE /\ refreshing' = FALSE
    /\ before' = NoSnap
    /\ UNCHANGED <<backendVars, homeMounted, timers, status, connection, latestAlert,
                   demoReqs, unhandled, alertVars, ackOutcome, applied, overtaken>>
    /\ UNCHANGED extVars

\* a demo button without the await: fetchData() is called at once
demoPress_NoAwait(kind) ==
    /\ HomeInteractive
    /\ Cardinality(demoReqs \cup {kind}) <= MaxDemo
    /\ Len(homeReqs) + Cardinality(demoReqs \cup {kind}) < MaxReqs
    /\ demoReqs' = demoReqs \cup {kind}
    /\ StartFetch
    /\ UNCHANGED <<backendVars, homeMounted, timers, status, connection, latestAlert,
                   loading, refreshing, unhandled, alertVars, console,
                   ackOutcome, applied, overtaken>>
    /\ UNCHANGED extVars

\* a demo button: await fetch(simulate/kind), then fetchData()
demoPress(kind) ==
    /\ HomeInteractive
    /\ Cardinality(demoReqs \cup {kind}) <= MaxDemo
    /\ Len(homeReqs) + Cardinality(demoReqs \cup {kind}) <= MaxReqs
    /\ demoReqs' = demoReqs \cup {kind}
    /\ UNCHANGED <<backendVars, homeMounted, timers, status, connection, latestAlert,
                   loading, refreshing, homeReqs, unhandled, alertVars, console,
                   histVars>>
    /\ UNCHANGED extVars

\* the simulate call resolves (2xx or not): fetchData() is called
demoSettle(kind) ==
    /\ kind \in demoReqs
    /\ demoReqs' = demoReqs \ {kind}
    /\ StartFetch
    /\ UNCHANGED <<backendVars, homeMounted, timers, status, connection, latestAlert,
                   loading, refreshing, unhandled, alertVars, console,
                   ackOutcome, applied, overtaken>>
    /\ UNCHANGED extVars

\* the simulate call rejects: nothing catches it and fetchData() is not called
demoFail(kind) ==
    /\ kind \in demoReqs
    /\ demoReqs' = demoReqs \ {kind}
    /\ unhandled' = TRUE
    /\ UNCHANGED <<backendVars, homeMounted, timers, status, connection, latestAlert,
                   loading, refreshing, homeReqs, alertVars, console, histVars>>
    /\ UNCHANGED extVars

----------------------------------------------------------------------------
\* EventLogScreen
NoEvents == [t |-> "events", items |-> <<>>]

\* GET /api/events: the list the backend returns, in its order
GetEvents == {NoEvents, [t |-> "events", items |-> <<1>>]}

EventsView ==
    IF route # "events" THEN [kind |-> "unmounted"]
    ELSE IF eLoading THEN [kind |-> "loading"]
    ELSE IF events.items = <<>> THEN [kind |-> "No Events Yet"]
    ELSE [kind |-> "list", refreshing |-> eRefreshing]

\* router.back() pops the event log: its continuations lose their component
EventsUnmount ==
    /\ route' = "home"
    /\ events' = NoEvents /\ eLoading' = TRUE /\ eRefreshing' = FALSE
    /\ eReqs' = 0

\* Event Log: router.push('/events') mounts the screen, useEffect fetches
viewEvents ==
    /\ HomeInteractive
    /\ route' = "events"
    /\ events' = NoEvents /\ eLoading' = TRUE /\ eRefreshing' = FALSE
    /\ eReqs' = 1
    /\ UNCHANGED <<backendVars, homeVars, alert, aLoading, acknowledging, aFetch,
                   ackReqs, dialogs, console, histVars, fmtVars>>

\* the refresh button or pull-to-refresh of the event log
onRefreshEvents ==
    /\ EventsView.kind \in {"No Events Yet", "list"} /\ dialogs = <<>>
    /\ eReqs < MaxEvReqs
    /\ eRefreshing' = TRUE
    /\ eReqs' = eReqs + 1
    /\ UNCHANGED <<backendVars, homeVars, alertVars, console, histVars,
                   events, eLoading, fmtVars>>

fetchEventsOk(body) ==
    /\ eReqs > 0
    /\ body \in GetEvents
    /\ events' = body
    /\ eLoading' = FALSE /\ eRefreshing' = FALSE
    /\ eReqs' = eReqs - 1
    /\ UNCHANGED <<backendVars, homeVars, alertVars, console, histVars, fmtVars>>

\* fetchEvents with the finally block missing
fetchEventsFail_NoFinally ==
    /\ eReqs > 0
    /\ Len(console) < MaxLogs
    /\ console' = Append(console, "Error fetching events:")
    /\ eReqs' = eReqs - 1
    /\ UNCHANGED <<backendVars, homeVars, alertVars, histVars,
                   events, eLoading, eRefreshing, fmtVars>>

fetchEventsFail ==
    /\ eReqs > 0
    /\ Len(console) < MaxLogs
    /\ console' = Append(console, "Error fetching events:")
    /\ eLoading' = FALSE /\ eRefreshing' = FALSE
    /\ eReqs' = eReqs - 1
    /\ UNCHANGED <<backendVars, homeVars, alertVars, histVars, events, fmtVars>>

\* the header arrow of the event log: router.back()
backPressEvents ==
    /\ route = "events" /\ dialogs = <<>>
    /\ EventsUnmount
    /\ UNCHANGED <<backendVars, homeVars, alert, aLoading, acknowledging, aFetch,
                   ackReqs, dialogs, console, histVars, fmtVars>>

\* formatDateTime of the event log; diff = now.getTime() - date.getTime()
NoText == [text |-> "none"]

formatDateTime_Round(diff) ==
    LET minutes == (diff + 30000) \div 60000
        hours == minutes \div 60
        days == hours \div 24
    IN  IF minutes < 1 THEN [text |-> "Just now"]
        ELSE IF minutes < 60 THEN [n |-> minutes, text |-> "m ago"]
        ELSE IF hours < 24 THEN [n |-> hours, text |-> "h ago"]
        ELSE IF days < 7 THEN [n |-> days, text |-> "d ago"]
        ELSE [text |-> "toLocaleDateString"]

formatDateTime(diff) ==
    LET minutes == diff \div 60000
        hours == minutes \div 60
        days == hours \div 24
    IN  IF minutes < 1 THEN [text |-> "Just now"]
        ELSE IF minutes < 60 THEN [n |-> minutes, text |-> "m ago"]
        ELSE IF hours < 24 THEN [n |-> hours, text |-> "h ago"]
        ELSE IF days < 7 THEN [n |-> days, text |-> "d ago"]
        ELSE [text |-> "toLocaleDateString"]

\* renderEvent formats the timestamp of an event
renderEvent ==
    /\ formatted = NoText
    /\ formatted' = formatDateTime(elapsed)
    /\ UNCHANGED <<backendVars, homeVars, alertVars, console, histVars,
                   eventVars, elapsed>>

----------------------------------------------------------------------------
\* AlertScreen
AlertView ==
    IF route # "alert" THEN [kind |-> "unmounted"]
    ELSE IF aLoading THEN [kind |-> "loading"]
    ELSE IF ~Truthy(alert) THEN [kind |-> "No Active Alerts"]
    ELSE IF ~Has(alert, "type") THEN [kind |-> "crashed"]
    ELSE [kind |-> "alert", type |-> alert.type, disabled |-> acknowledging]

\* the continuations of the screen being left lose their component
AlertUnmount ==
    /\ route' = "home"
    /\ alert' = Null /\ aLoading' = TRUE /\ acknowledging' = FALSE
    /\ aFetch' = FALSE
    /\ ackOutcome' = "none"

Orphaned(reqs) == {[r EXCEPT !.live = FALSE] : r \in reqs}

\* VIEW ALERT: router.push('/alert') mounts the screen, useEffect fetches
viewAlert ==
    /\ HomeInteractive
    /\ HomeView.preview = "Active Alert"
    /\ route' = "alert"
    /\ alert' = Null /\ aLoading' = TRUE /\ acknowledging' = FALSE
    /\ aFetch' = TRUE
    /\ ackOutcome' = "none"
    /\ UNCHANGED <<backendVars, homeVars, ackReqs, dialogs, console,
                   before, applied, overtaken>>
    /\ UNCHANGED extVars

\* fetchLatestAlert writing the alert into a store the home screen reads too
fetchLatestAlertOk_Shared(body) ==
    /\ aFetch
    /\ body \in {GetLatestAlert, ErrBody}
    /\ alert' = body /\ latestAlert' = body
    /\ aLoading' = FALSE
    /\ aFetch' = FALSE
    /\ UNCHANGED <<backendVars, homeMounted, timers, status, connection, loading,
                   refreshing, homeReqs, demoReqs, unhandled, route, acknowledging,
                   ackReqs, dialogs, console, histVars>>
    /\ UNCHANGED extVars

\* const data = await response.json(); setAlert(data); finally setLoading(false)
fetchLatestAlertOk(body) ==
    /\ aFetch
    /\ body \in {GetLatestAlert, ErrBody}
    /\ alert' = body
    /\ aLoading' = FALSE
    /\ aFetch' = FALSE
    /\ UNCHANGED <<backendVars, homeVars, route, acknowledging, ackReqs, dialogs,
                   console, histVars>>
    /\ UNCHANGED extVars

fetchLatestAlertFail ==
    /\ aFetch
    /\ Len(console) < MaxLogs
    /\ console' = Append(console, "Error fetching alert:")
    /\ aLoading' = FALSE
    /\ aFetch' = FALSE
    /\ UNCHANGED <<backendVars, homeVars, route, alert, acknowledging, ackReqs,
                   dialogs, histVars>>
    /\ UNCHANGED extVars

\* ACKNOWLEDGE ALERT pressed: the POST is issued
handleAcknowledge ==
    /\ AlertView.kind = "alert" /\ ~AlertView.disabled /\ dialogs = <<>>
    /\ Truthy(alert)
    /\ Cardinality(ackReqs \cup {[id |-> alert.id, live |-> TRUE]}) <= MaxAcks
    /\ acknowledging' = TRUE
    /\ ackReqs' = ackReqs \cup {[id |-> alert.id, live |-> TRUE]}
    /\ ackOutcome' = "pending"
    /\ UNCHANGED <<backendVars, homeVars, route, alert, aLoading, aFetch, dialogs,
                   console, before, applied, overtaken>>
    /\ UNCHANGED extVars

\* finally { setAcknowledging(false) }, on the component that issued r
AckFinally(r, outcome) ==
    /\ ackReqs' = ackReqs \ {r}
    /\ acknowledging' = IF r.live THEN FALSE ELSE acknowledging
    /\ ackOutcome' = IF r.live THEN outcome ELSE ackOutcome

\* handleAcknowledgeOk that also calls setAlert(null)
handleAcknowledgeOk_ClearAlert(r) ==
    /\ r \in ackReqs
    /\ bAcked' = PostAcknowledge(r.id)
    /\ dialogs' = Append(dialogs, "Alert Acknowledged")
    /\ AckFinally(r, "ok")
    /\ alert' = IF r.live THEN Null ELSE alert
    /\ UNCHANGED <<nAlerts, homeVars, route, aLoading, aFetch, console,
                   before, applied, overtaken>>
    /\ UNCHANGED extVars

\* handleAcknowledgeOk that marks the held alert acknowledged and keeps it
handleAcknowledgeOk_MarkLocal(r) ==
    /\ r \in ackReqs
    /\ bAcked' = PostAcknowledge(r.id)
    /\ dialogs' = Append(dialogs, "Alert Acknowledged")
    /\ AckFinally(r, "ok")
    /\ alert' = IF r.live /\ Has(alert, "acknowledged")
                THEN [alert EXCEPT !.acknowledged = TRUE] ELSE alert
    /\ UNCHANGED <<nAlerts, homeVars, route, aLoading, aFetch, console,
                   before, applied, overtaken>>
    /\ UNCHANGED extVars

\* response.ok: the confirmation dialog is raised
handleAcknowledgeOk(r) ==
    /\ r \in ackReqs
    /\ bAcked' = PostAcknowledge(r.id)
    /\ dialogs' = Append(dialogs, "Alert Acknowledged")
    /\ AckFinally(r, "ok")
    /\ UNCHANGED <<nAlerts, homeVars, route, alert, aLoading, aFetch, console,
                   before, applied, overtaken>>
    /\ UNCHANGED extVars

\* a non-2xx response leaving the pending flag set
handleAcknowledgeRejected_KeepsPending(r) ==
    /\ r \in ackReqs
    /\ ackReqs' = ackReqs \ {r}
    /\ ackOutcome' = IF r.live THEN "rejected" ELSE ackOutcome
    /\ UNCHANGED <<backendVars, homeVars, route, alert, aLoading, acknowledging,
                   aFetch, dialogs, console, before, applied, overtaken>>
    /\ UNCHANGED extVars

\* a non-2xx response: neither branch of the handler runs
handleAcknowledgeRejected(r) ==
    /\ r \in ackReqs
    /\ AckFinally(r, "rejected")
    /\ UNCHANGED <<backendVars, homeVars, route, alert, aLoading, aFetch, dialogs,
                   console, before, applied, overtaken>>
    /\ UNCHANGED extVars

\* fetch rejects: catch logs and raises the error dialog
handleAcknowledgeFail(r) ==
    /\ r \in ackReqs
    /\ Len(console) < MaxLogs
    /\ console' = Append(console, "Error acknowledging alert:")
    /\ dialogs' = Append(dialogs, "Error")
    /\ AckFinally(r, "failed")
    /\ UNCHANGED <<backendVars, homeVars, route, alert, aLoading, aFetch,
                   before, applied, overtaken>>
    /\ UNCHANGED extVars

\* the dialog's button: OK of the confirmation calls router.back(), which
\* pops the screen that is on top
dialogPress ==
    /\ dialogs # <<>>
    /\ dialogs' = Tail(dialogs)
    /\ IF Head(dialogs) = "Alert Acknowledged" /\ route = "alert"
       THEN /\ AlertUnmount
            /\ ackReqs' = Orphaned(ackReqs)
            /\ UNCHANGED eventVars
       ELSE IF Head(dialogs) = "Alert Acknowledged" /\ route = "events"
       THEN /\ EventsUnmount
            /\ UNCHANGED <<alert, aLoading, acknowledging, aFetch, ackReqs,
                           ackOutcome>>
       ELSE UNCHANGED <<route, alert, aLoading, acknowledging, aFetch, ackReqs,
                        ackOutcome, eventVars>>
    /\ UNCHANGED <<backendVars, homeVars, console, before, applied, overtaken, fmtVars>>

\* the header arrow or Back to Home: router.back()
backPress ==
    /\ AlertView.kind \in {"alert", "No Active Alerts"} /\ dialogs = <<>>
    /\ AlertUnmount
    /\ ackReqs' = Orphaned(ackReqs)
    /\ UNCHANGED <<backendVars, homeVars, dialogs, console, before, applied, overtaken>>
    /\ UNCHANGED extVars

----------------------------------------------------------------------------
InitScreens ==
    /\ homeMounted = FALSE /\ timers = 0
    /\ status = Null /\ connection = Null /\ latestAlert = Null
    /\ loading = TRUE /\ refreshing = FALSE
    /\ homeReqs = <<>> /\ demoReqs = {} /\ unhandled = FALSE
    /\ route = "home" /\ alert = Null /\ aLoading = TRUE /\ acknowledging = FALSE
    /\ aFetch = FALSE /\ ackReqs = {} /\ dialogs = <<>>
    /\ events = NoEvents /\ eLoading = TRUE /\ eRefreshing = FALSE /\ eReqs = 0
    /\ console = <<>>
    /\ ackOutcome = "none" /\ before = NoSnap /\ applied = Blank /\ overtaken = {}

InitApp == InitScreens /\ nAlerts = 0 /\ bAcked = {}

Init == InitApp /\ elapsed = 0 /\ formatted = NoText

\* times since the event: every whole minute up to the bound, at its first
\* millisecond, its second and its last
ElapsedSet == {m * 60000 + o : m \in 0..MaxElapsedMin, o \in {0, 1, 59999}}

InitFmt == InitApp /\ elapsed \in ElapsedSet /\ formatted = NoText

\* the application starts while the backend holds one active alert
InitOne ==
    /\ InitScreens /\ nAlerts = 1 /\ bAcked = {}
    /\ elapsed = 0 /\ formatted = NoText

NextHome ==
    \/ DeviceAlert
    \/ HomeMount
    \/ HomeUnmount
    \/ TimerTick
    \/ onRefresh
    \/ \E i \in 1..MaxReqs, body \in AllBodies : fetchDataOk(i, body)
    \/ \E i \in 1..MaxReqs : fetchDataFail(i)
    \/ \E kind \in SimKinds : demoPress(kind)
    \/ \E kind \in SimKinds : demoSettle(kind)
    \/ \E kind \in SimKinds : demoFail(kind)

AckRecs == [id : 1..MaxAlerts, live : BOOLEAN]

NextAlert ==
    \/ DeviceAlert
    \/ HomeMount
    \/ HomeUnmount
    \/ \E i \in 1..MaxReqs, body \in AllBodies : fetchDataOk(i, body)
    \/ \E i \in 1..MaxReqs : fetchDataFail(i)
    \/ viewAlert
    \/ \E body \in AllBodies : fetchLatestAlertOk(body)
    \/ fetchLatestAlertFail
    \/ handleAcknowledge
    \/ \E r \in AckRecs : handleAcknowledgeOk(r)
    \/ \E r \in AckRecs : handleAcknowledgeRejected(r)
    \/ \E r \in AckRecs : handleAcknowledgeFail(r)
    \/ dialogPress
    \/ backPress

\* the three screens together, every response carrying the entity asked for
LiteBodies ==
    {[t |-> "status", current_status |-> "EMERGENCY"],
     [t |-> "connection", is_connected |-> TRUE], GetLatestAlert}

NextApp ==
    \/ HomeMount
    \/ TimerTick
    \/ onRefresh
    \/ \E i \in 1..MaxReqs, body \in LiteBodies : fetchDataOk(i, body)
    \/ \E i \in 1..MaxReqs : fetchDataFail(i)
    \/ viewAlert
    \/ fetchLatestAlertOk(GetLatestAlert)
    \/ fetchLatestAlertFail
    \/ handleAcknowledge
    \/ \E r \in AckRecs : handleAcknowledgeOk(r)
    \/ \E r \in AckRecs : handleAcknowledgeRejected(r)
    \/ \E r \in AckRecs : handleAcknowledgeFail(r)
    \/ dialogPress
    \/ backPress
    \/ viewEvents
    \/ onRefreshEvents
    \/ \E body \in GetEvents : fetchEventsOk(body)
    \/ fetchEventsFail
    \/ backPressEvents

\* the two writes (acknowledge, simulate) and what follows them
NextWrites ==
    \/ HomeMount
    \/ \E i \in 1..MaxReqs, body \in LiteBodies : fetchDataOk(i, body)
    \/ \E i \in 1..MaxReqs : fetchDataFail(i)
    \/ \E kind \in SimKinds : demoPress(kind)
    \/ \E kind \in SimKinds : demoSettle(kind)
    \/ \E kind \in SimKinds : demoFail(kind)
    \/ viewAlert
    \/ fetchLatestAlertOk(GetLatestAlert)
    \/ handleAcknowledge
    \/ \E r \in AckRecs : handleAcknowledgeOk(r)
    \/ \E r \in AckRecs : handleAcknowledgeRejected(r)
    \/ \E r \in AckRecs : handleAcknowledgeFail(r)
    \/ dialogPress
    \/ backPress

NextFmt == renderEvent

SpecHome == Init /\ [][NextHome]_vars

SpecApp == InitOne /\ [][NextApp]_vars

SpecWrites == InitOne /\ [][NextWrites]_vars

SpecFmt == InitFmt /\ [][NextFmt]_vars

SpecAlert == Init /\ [][NextAlert]_vars

----------------------------------------------------------------------------
\* Steps the properties speak about
Resources == {"status", "connection", "alert"}

\* a home read failed in this step: fetchData's catch logged
FetchFailStep ==
    /\ Len(console') = Len(console) + 1
    /\ console'[Len(console')] = "Error fetching data:"

\* the acknowledge of the mounted alert screen settled in this step
AckSettles(outcome) == ackOutcome = "pending" /\ ackOutcome' = outcome

SafeCard == [text |-> "SAFE", color |-> "#34C759", icon |-> "checkmark-circle"]

Recognized(st) == Has(st, "current_status") /\ st.current_status \in DOMAIN STATUS_COLORS
Missing(st) == ~Has(st, "current_status") \/ st.current_status = ""

----------------------------------------------------------------------------
\* C1 (as stated): when the acknowledge of a held alert returns success, the
\* screen no longer holds the alert (no-active-alert view, or navigated away).
C1_Original == [][AckSettles("ok") => ~Truthy(alert')]_vars

\* C1 (amended): when the acknowledge of a held alert returns success, the
\* screen keeps its held alert and stays on the alert view, clears the pending
\* flag and raises the "Alert Acknowledged" dialog; afterwards the screen is
\* left only by pressing that dialog's button.
C1_Amended ==
    /\ [][AckSettles("ok") =>
            /\ alert' = alert /\ Truthy(alert)
            /\ route' = "alert"
            /\ ~acknowledging'
            /\ dialogs' = Append(dialogs, "Alert Acknowledged")]_vars
    /\ [][(ackOutcome = "ok" /\ route = "alert" /\ route' # "alert") =>
            /\ dialogs # <<>> /\ Head(dialogs) = "Alert Acknowledged"
            /\ dialogs' = Tail(dialogs)]_vars

C1_Witness ==
    /\ ackOutcome = "ok" /\ route = "alert" /\ AlertView.kind = "alert"
    /\ dialogs = <<"Alert Acknowledged">>

\* C2: when an acknowledge write fails (transport failure or non-2xx), the
\* held alert is unchanged, an error dialog is raised and no write is reissued.
C2_Claim ==
    [][(AckSettles("failed") \/ AckSettles("rejected")) =>
         /\ alert' = alert
         /\ dialogs' = Append(dialogs, "Error")
         /\ ackReqs' \subseteq ackReqs]_vars

\* C3 (as stated): a refresh that ran alone and in which one read failed
\* leaves the other two resources as they were before the refresh.
C3_Original ==
    [][(FetchFailStep /\ before # NoSnap) =>
         \A k \in Resources \ {HeldKey(homeReqs[1])} : Snapshot'[k] = before[k]]_vars

\* C3 (amended): in a refresh that ran alone and in which a read failed, the
\* failed resource and the resources read after it (order: status, connection,
\* latest alert) hold the values from before the refresh, and every resource
\* read before the failed one holds the value its own read returned.
C3_Amended ==
    [][(FetchFailStep /\ before # NoSnap) =>
         \A k \in Resources :
            IF Rank(k) >= Rank(homeReqs[1]) THEN Snapshot'[k] = before[k]
            ELSE Snapshot'[k] = applied[k]]_vars

C3_Witness ==
    /\ homeMounted /\ ~loading /\ homeReqs = <<>>
    /\ console # <<>> /\ console[Len(console)] = "Error fetching data:"
    /\ status # Null /\ connection = Null /\ latestAlert = Null

\* C4: a refresh issues all three reads whatever the outcome of the others:
\* a refresh of the mounted screen ends only once its third read was issued.
C4_Claim ==
    [][\A i \in 1..Len(homeReqs) :
          (homeMounted' /\ homeReqs' = RemoveAt(homeReqs, i)) =>
              homeReqs[i] = "alert"]_vars

\* C5: a failed home read writes nothing: status, connection and latest alert
\* all keep their values, and none is cleared.
C5_FailureWritesNothing ==
    [][FetchFailStep =>
         /\ status' = status /\ connection' = connection
         /\ latestAlert' = latestAlert]_vars

C5_Witness ==
    /\ homeMounted /\ console # <<>> /\ console[Len(console)] = "Error fetching data:"
    /\ status # Null /\ connection # Null /\ latestAlert # Null
    /\ Len(homeReqs) = 1 /\ homeReqs[1] # "status"

C7_LastAppliedWins == homeMounted => Snapshot = applied

C7_Witness ==
    /\ homeMounted /\ refreshing /\ Len(homeReqs) = 2
    /\ "status" \in overtaken /\ "connection" \notin overtaken
    /\ connection # Null

C9_OneTimer ==
    /\ [](timers = IF homeMounted THEN 1 ELSE 0)
    /\ [][(~homeMounted /\ ~homeMounted') => homeReqs' = homeReqs]_vars

C9_Witness == ~homeMounted /\ timers = 0 /\ console # <<>>

\* C10 (as stated): a resource not yet fetched successfully is never rendered
\* as a concrete value.
C10_Original ==
    (homeMounted /\ (status = Null \/ connection = Null)) => HomeView.kind # "home"

\* C10 (amended): while the loading flag is set, which is until the first
\* refresh settles, the home screen renders only the loading indicator; once a
\* refresh has settled, also by failing, a resource never fetched successfully
\* is rendered by its default: status SAFE, connection Disconnected, no preview.
C10_Amended ==
    homeMounted =>
        /\ loading => (HomeView.kind = "loading" /\ homeReqs # <<>> /\ latestAlert = Null)
        /\ (~loading /\ status = Null) =>
              (console # <<>> /\ HomeView.kind = "home" /\ HomeView.status = SafeCard)
        /\ (~loading /\ connection = Null) =>
              (console # <<>> /\ HomeView.kind = "home"
               /\ HomeView.connection = "Disconnected")
        /\ (~loading /\ latestAlert = Null) =>
              (HomeView.kind = "home" /\ HomeView.preview = "hidden")

C10_Witness ==
    /\ homeMounted /\ ~loading /\ status = Null /\ connection = Null
    /\ HomeView.kind = "home"

----------------------------------------------------------------------------
\* a screen instance stays mounted across the step
HomeStays == homeMounted /\ homeMounted'
AlertStays == route = "alert" /\ route' = "alert"
EventsStay == route = "events" /\ route' = "events"

\* a home refresh is started in this step
FetchStarts == Len(homeReqs') = Len(homeReqs) + 1

\* an acknowledge request settles in this step
AckLeaves == \E r \in ackReqs : ackReqs' = ackReqs \ {r}

\* C11: a network or parse failure of any backend call (the four reads, the
\* acknowledge, the three simulate calls) is caught at its call site and never
\* escapes the caller as an unhandled failure.
C11_Claim == unhandled = FALSE

\* C12: on each of the three screens, once the loading flag of a mounted screen
\* has been cleared, no later step (refresh, failure, acknowledge, timer)
\* sets it again while that screen stays mounted.
C12_LoadingOnce ==
    /\ [][(HomeStays /\ ~loading) => ~loading']_vars
    /\ [][(AlertStays /\ ~aLoading) => ~aLoading']_vars
    /\ [][(EventsStay /\ ~eLoading) => ~eLoading']_vars

\* loading cleared on home and on the event log, a later refresh of each in
\* flight, and a failure already logged
C12_Witness ==
    /\ homeMounted /\ ~loading /\ refreshing /\ homeReqs # <<>>
    /\ route = "events" /\ ~eLoading /\ eRefreshing /\ eReqs > 0
    /\ console # <<>>

\* C13: the confirmation dialog whose OK navigates back is raised only in a
\* step where an acknowledge request settles, the step issuing the acknowledge
\* neither navigates nor raises a dialog, and a demo button starts its refresh
\* only in the step where its simulate call settles, never in the step that
\* issues the call and never when the call fails.
C13_WriteBeforeTransition ==
    /\ [][Len(dialogs') > Len(dialogs) => AckLeaves]_vars
    /\ [][(\E r \in ackReqs' \ ackReqs : r.live) =>
             (route' = route /\ dialogs' = dialogs)]_vars
    /\ [][(demoReqs' # demoReqs /\ ~(demoReqs' \subseteq demoReqs)) =>
             homeReqs' = homeReqs]_vars
    /\ [][(demoReqs' # demoReqs /\ FetchStarts) => demoReqs' \subseteq demoReqs]_vars
    /\ [][(demoReqs' # demoReqs /\ demoReqs' \subseteq demoReqs /\ ~unhandled') =>
             FetchStarts]_vars

\* the refresh started by a settled simulate call is in flight on the loaded
\* home screen, and the confirmation of a settled acknowledge is up
C13_Witness ==
    /\ homeMounted /\ ~loading /\ homeReqs # <<>> /\ demoReqs = {}
    /\ route = "alert" /\ dialogs = <<"Alert Acknowledged">> /\ ackReqs = {}

\* the relative time as stated, by the thresholds in milliseconds; label is
\* the text for less than a minute
Relative(e, label) ==
    IF e < 60000 THEN [text |-> label]
    ELSE IF e < 3600000 THEN [n |-> e \div 60000, text |-> "m ago"]
    ELSE IF e < 86400000 THEN [n |-> e \div 3600000, text |-> "h ago"]
    ELSE IF e < 604800000 THEN [n |-> e \div 86400000, text |-> "d ago"]
    ELSE [text |-> "toLocaleDateString"]

\* C14 (as stated): for every elapsed time e >= 0 the formatter returns
\* "just now" under one minute, "{m}m ago" under one hour, "{h}h ago" under one
\* day, "{d}d ago" under seven days, and an absolute short date otherwise.
C14_Original == formatted # NoText => formatted = Relative(elapsed, "just now")

\* C14 (amended): as stated, except that the text under one minute is
\* "Just now" with a capital J; 0-59 s gives "Just now", 5 min "5m ago",
\* 3 h "3h ago", 2 d "2d ago", 10 d an absolute date.
C14_Amended ==
    formatted # NoText =>
        /\ formatted = Relative(elapsed, "Just now")
        /\ \A s \in {0, 1, 59999} : formatDateTime(s) = [text |-> "Just now"]
        /\ formatDateTime(5 * 60000) = [n |-> 5, text |-> "m ago"]
        /\ formatDateTime(3 * 3600000) = [n |-> 3, text |-> "h ago"]
        /\ formatDateTime(2 * 86400000) = [n |-> 2, text |-> "d ago"]
        /\ formatDateTime(10 * 86400000) = [text |-> "toLocaleDateString"]

\* an event one second short of two hours old has been rendered
C14_Witness == elapsed = 119 * 60000 + 59999 /\ formatted = [n |-> 1, text |-> "h ago"]

\* C15: a read answered by a non-2xx response with a parseable error body never
\* replaces the held status, connection or latest alert of the home screen nor
\* the held alert of the alert screen.
C15_Claim ==
    /\ status # ErrBody /\ connection # ErrBody /\ latestAlert # ErrBody
    /\ alert # ErrBody

\* the request at the head of homeReqs stays in flight across the step
HeadHangs ==
    /\ homeReqs # <<>> /\ homeReqs' # <<>>
    /\ Head(homeReqs')= Head(homeReqs)
    /\ Len(homeReqs') >= Len(homeReqs) - 1

\* C16 (as stated): on every screen, while the first fetch of the mounted
\* screen has not settled, no step clears the loading flag.
C16_Original ==
    /\ [][(HomeStays /\ loading /\ HeadHangs) => loading']_vars
    /\ [][(AlertStays /\ aLoading /\ aFetch /\ aFetch') => aLoading']_vars
    /\ [][(EventsStay /\ eLoading /\ eReqs > 0 /\ eReqs' >= eReqs) => eLoading']_vars

\* C16 (amended): on the alert and event-log screens, while the first fetch
\* has not settled nothing clears the loading flag; on the home screen the
\* flag stays set while the first fetch hangs unless a later refresh (started
\* by the 30 s timer) settles, which is the only other step that clears it.
C16_Amended ==
    /\ [][(HomeStays /\ loading /\ HeadHangs /\ ~loading') =>
             (Len(homeReqs) >= 2 /\ Len(homeReqs') = Len(homeReqs) - 1)]_vars
    /\ [][(HomeStays /\ loading /\ homeReqs' = homeReqs) => loading']_vars
    /\ [][(AlertStays /\ aLoading /\ aFetch /\ aFetch') => aLoading']_vars
    /\ [][(EventsStay /\ eLoading /\ eReqs > 0 /\ eReqs' >= eReqs) => eLoading']_vars
    /\ [](homeMounted /\ loading => homeReqs # <<>>)
    /\ [](route = "alert" /\ aLoading => aFetch)
    /\ [](route = "events" /\ eLoading => eReqs > 0)

\* the first home fetch still waits for its first response, a later one has
\* failed and cleared the flag; the event log waits on its hung first fetch
C16_Witness ==
    /\ homeMounted /\ ~loading /\ status = Null
    /\ homeReqs = <<"status">> /\ console = <<"Error fetching data:">>
    /\ route = "events" /\ eLoading /\ eReqs = 1

\* the home screen's read of resource pc gets its response in this step
HomeApplies(pc) ==
    \E i \in 1..Len(homeReqs) :
        /\ homeReqs[i] = pc
        /\ homeReqs' = IF pc = "alert" THEN RemoveAt(homeReqs, i)
                       ELSE [homeReqs EXCEPT ![i] = NextPc(@)]

\* C17: the held state of each screen is written only by that screen's own
\* fetch completions: status, connection and latest alert of the mounted home
\* screen change only in a step where a home read settles, in particular not
\* when an acknowledge succeeds or the alert screen is left; the alert
\* screen's alert and the event log's events change only when their own fetch
\* settles.
C17_OwnWritesOnly ==
    /\ [][(HomeStays /\ status' # status) =>
             (HomeApplies("status") /\ status' = applied'.status)]_vars
    /\ [][(HomeStays /\ connection' # connection) =>
             (HomeApplies("connection") /\ connection' = applied'.connection)]_vars
    /\ [][(HomeStays /\ latestAlert' # latestAlert) =>
             (HomeApplies("alert") /\ latestAlert' = applied'.alert)]_vars
    /\ [][(AlertStays /\ alert' # alert) => (aFetch /\ ~aFetch')]_vars
    /\ [][(EventsStay /\ events' # events) => eReqs' = eReqs - 1]_vars

\* back on the home screen after a successful acknowledge, the preview still
\* holds the alert the backend has marked acknowledged, before any home read
\* has settled again
C17_Witness ==
    /\ route = "home" /\ dialogs = <<>> /\ homeReqs = <<>>
    /\ Has(latestAlert, "id") /\ latestAlert.id \in bAcked

\* the acknowledge requests issued by the mounted alert screen
LiveAcks == {r \in ackReqs : r.live}

\* an acknowledge write is issued in this step
AckIssued == \E r \in ackReqs' \ ackReqs : r.live

\* C18 (as stated): an acknowledge write is issued only when the alert screen
\* holds an alert and no write is pending, at most one acknowledge write is in
\* flight at any time, and the pending flag is cleared on every outcome.
C18_Original ==
    /\ [](Cardinality(ackReqs) <= 1)
    /\ [][AckIssued => (route = "alert" /\ Truthy(alert) /\ ~acknowledging)]_vars
    /\ [][(AckSettles("ok") \/ AckSettles("rejected") \/ AckSettles("failed")) =>
             ~acknowledging']_vars

\* C18 (amended): an acknowledge write is issued only when the mounted alert
\* screen holds an alert and its pending flag is clear; each mounted alert
\* screen has at most one write in flight, exactly while its pending flag is
\* set, and the flag is cleared on every outcome; a write issued by an alert
\* screen that was left while the write was pending stays in flight, so two
\* acknowledge writes can be in flight at once.
C18_Amended ==
    /\ [](Cardinality(LiveAcks) <= 1)
    /\ [](route = "alert" => (acknowledging <=> LiveAcks # {}))
    /\ [](route # "alert" => LiveAcks = {})
    /\ [](AlertView.kind = "No Active Alerts" => LiveAcks = {})
    /\ [][AckIssued => (route = "alert" /\ Truthy(alert) /\ ~acknowledging
                        /\ Cardinality(LiveAcks') = 1)]_vars
    /\ [][(AlertView.kind # "alert" /\ ackReqs' # ackReqs) =>
             Cardinality(ackReqs') <= Cardinality(ackReqs)]_vars
    /\ [][(AckSettles("ok") \/ AckSettles("rejected") \/ AckSettles("failed")) =>
             ~acknowledging']_vars

\* the write of a left alert screen and the write of the re-opened one are
\* both in flight
C18_Witness ==
    /\ route = "alert" /\ acknowledging
    /\ Cardinality(ackReqs) = 2 /\ Cardinality(LiveAcks) = 1

\* C19: on the home and the event-log screen, the pull-to-refresh indicator
\* being on implies that a fetch of that screen is in flight.
C19_RefreshingMeansPending ==
    /\ (homeMounted /\ refreshing) => homeReqs # <<>>
    /\ (route = "events" /\ eRefreshing) => eReqs > 0

\* both indicators on, with two home refreshes and one event-log refresh in
\* flight
C19_Witness ==
    /\ homeMounted /\ refreshing /\ Len(homeReqs) = 2
    /\ route = "events" /\ eRefreshing /\ eReqs = 1 /\ console # <<>>

====
